---- MODULE Spec2Model ----
(***************************************************************************)
(* Session state machine of the "regalo" star-field: the message store,    *)
(* the particle split, formation, message open/close/next/previous and     *)
(* the one-shot completion footer.  Modelled from the latest revision in   *)
(* src/unnamed/part_000 (lines 349-819); src/main.js is the same program    *)
(* without currentMsgIndex and without Next/Previous.                      *)
(*                                                                         *)
(* Particle coordinates are integers on a lattice; the position buffers     *)
(* hold Float32 values, a coarser lattice.  A raycast is an input: the     *)
(* list of intersections three.js returns for the current pointer, camera  *)
(* and particle positions.                                                 *)
(***************************************************************************)
EXTENDS Integers, Sequences, FiniteSets, TLC

\* ---------------------------------------------------------------- bounds
\* Largest message list a loaded document carries under Spec.
MaxMessages == 4
\* Largest message list a loaded document carries under SpecCompletion.
MaxMessagesLong == 11
\* Largest message list a loaded document carries under SpecHit.
MaxMessagesSmall == 2
\* TOTAL_PARTICLES = isMobile ? 1500 : 2500, scaled down.
BudgetMobile == 3
BudgetDesktop == 10

\* ------------------------------------------------------ program constants
\* state.openedCount === 10
CompletionThreshold == 10
\* currentMsgIndex: -1 (no message open)
NoMessage == -1
\* the fallback list of the catch block holds one message
FallbackCount == 1

\* finalPhrase is only tested for truthiness: "" stands for undefined or ''.
NoPhrase == ""
Phrases == {NoPhrase, "frase"}

VARIABLES
    pc,               \* progress of init(): "loading", "running", "crashed"
    isMobile,         \* window.innerWidth < 768 when the module was evaluated
    messageCount,     \* state.messages.length
    finalPhrase,      \* state.finalPhrase
    msgCount,         \* number of particles in msgPositions (interactive)
    bgCount,          \* number of particles in bgPositions (decorative)
    isFormed,         \* state.isFormed
    openedCount,      \* state.openedCount
    openedIndices,    \* state.openedIndices
    currentMsgIndex,  \* state.currentMsgIndex
    msgOverlay,       \* class of dom.msgOverlay: "hidden" / "visible"
    highlightVisible, \* highlightSphere.visible
    hoverVisible,     \* hoverStar.visible
    cursor,           \* document.body.style.cursor
    footerNotif,      \* class of dom.footerNotif: "hidden" / "visible"
    sizeBoosts,       \* how many times msgParticles.material.size was *= 1.1
    pointer,          \* what lies under the pointer: the element, and the
                      \* particles within the raycaster threshold of its ray
    msgPositions,       \* the arrays of the interactive population, three
    msgStartPositions,  \* entries per particle (x, y, z)
    msgTargetPositions,
    msgColors,
    msgPosAttr,         \* msgGeometry.attributes.position.array (Float32Array)
    bgPositions,        \* the arrays of the decorative population
    bgStartPositions,
    bgTargetPositions,
    bgColors,
    bgPosAttr,          \* bgGeometry.attributes.position.array (Float32Array)
    now,              \* Date.now() * 0.001 at the latest frame, in clock samples
    lastOp            \* the handler that ran last (history)

vars == <<pc, isMobile, messageCount, finalPhrase, msgCount, bgCount,
          isFormed, openedCount, openedIndices, currentMsgIndex, msgOverlay,
          highlightVisible, hoverVisible, cursor, footerNotif, sizeBoosts,
          pointer, msgPositions, msgStartPositions, msgTargetPositions,
          msgColors, msgPosAttr, bgPositions, bgStartPositions,
          bgTargetPositions, bgColors, bgPosAttr, now, lastOp>>

\* the part of the state the session state machine owns
session == <<isFormed, openedCount, openedIndices, currentMsgIndex,
             footerNotif, sizeBoosts>>
pool == <<pc, isMobile, messageCount, finalPhrase, msgCount, bgCount>>
display == <<msgOverlay, highlightVisible, hoverVisible, cursor>>
\* the arrays filled by the particle setup loop
arrays == <<msgPositions, msgStartPositions, msgTargetPositions, msgColors,
            bgPositions, bgStartPositions, bgTargetPositions, bgColors>>
\* the position buffers the renderer draws and animate() advances
buffers == <<msgPosAttr, bgPosAttr>>

TOTAL_PARTICLES == IF isMobile THEN BudgetMobile ELSE BudgetDesktop

\* ------------------------------------------------------------------ init
\* What the single fetch hands to init(): a failure (network error, !ok,
\* unparsable body, null document), or a document whose "messages" is a list
\* of some length or is missing.
FetchOutcomes(maxLength) ==
    {[ok |-> FALSE, hasMessages |-> FALSE, length |-> 0, finalPhrase |-> NoPhrase]}
    \cup [ok : {TRUE}, hasMessages : {TRUE}, length : 0..maxLength,
          finalPhrase : Phrases]
    \cup [ok : {TRUE}, hasMessages : {FALSE}, length : {0}, finalPhrase : Phrases]

\* ------------------------------------------------------------ coordinates
\* Coordinates are integers on a lattice of 1/100 world unit.  A JavaScript
\* number holds any lattice point (and, in the arithmetic of animate(), any
\* fraction of one); a Float32Array holds the multiples of Grain only.  On
\* this lattice the idle drift of a frame (0.25 * 0.05 and 1.5 * 0.01 world
\* units at most) is below half a grain.
Grain == 4

\* storing num / den in a Float32Array: the nearest multiple of Grain, ties
\* to the even one
fround(num, den) ==
    LET D == den * Grain
        q == num \div D
        r == num % D
    IN IF 2 * r < D THEN q * Grain
       ELSE IF 2 * r > D THEN (q + 1) * Grain
       ELSE IF q % 2 = 0 THEN q * Grain ELSE (q + 1) * Grain

\* new THREE.Float32BufferAttribute(array, 3)
Float32BufferAttribute(array) == [c \in 1..Len(array) |-> fround(array[c], 1)]

\* What one pass of the setup loop draws from Math.random(): the start
\* position (sx, sy, sz), the target position (tx, ty, tz) on the heart
\* outline (used for a message star) or in the cloud around it (used for a
\* background star) and, for a background star, the lightness
\* 0.6 + Math.random() * 0.4 in thousandths.
ParticleDraws ==
    {[start |-> <<1200, 902, 401>>, target |-> <<560, 140, 200>>,
      cloud |-> <<700, 0 - 300, 900>>, lightness |-> 600],
     [start |-> <<161, 0 - 950, 0 - 360>>, target |-> <<0, 0 - 600, 0 - 200>>,
      cloud |-> <<250, 0 - 1000, 0 - 500>>, lightness |-> 800]}

\* a draw whose start lies on the Float32 lattice and whose targets are at
\* most one step of a formed frame away
SettledDraw ==
    [start |-> <<800, 500, 400>>, target |-> <<464, 490, 410>>,
     cloud |-> <<810, 490, 410>>, lightness |-> 600]

\* the draws of every pass when Math.random() repeats itself
SettledDraws(total) == {[i \in 0..(total - 1) |-> SettledDraw]}

\* the draws of the passes for two streams of Math.random()
DrawStreams(total) ==
    LET d1 == CHOOSE d \in ParticleDraws : d.lightness = 600
        d2 == CHOOSE d \in ParticleDraws : d.lightness = 800
    IN {[i \in 0..(total - 1) |-> IF (i + s) % 2 = 0 THEN d1 ELSE d2] :
           s \in 0..1}

\* getColorForTone(msg.tone || <default tone>): 0xa78bfa for 'fuerza',
\* 0xffb7b2 for the default tone; "" is a message without tone
getColorForTone(tone) ==
    IF tone = "fuerza" THEN <<167, 139, 250>> ELSE <<255, 183, 178>>

\* color.setHSL(0.6, 0.2, lightness), in thousandths
setHSL(lightness) ==
    LET q == lightness + 200 - (lightness \div 5)
        p == 2 * lightness - q
    IN <<p, p + ((q - p) * 2) \div 5, q>>

\* slip: the current position starts at the target
initialPosition_Target(draw) == draw.target

\* msgPositions.push(sx, sy, sz) / bgPositions.push(sx, sy, sz)
initialPosition(draw) == draw.start

\* slip: one particle too many is taken for a message star
isMessageStar_Inclusive(i, mc) == i <= mc

\* if (i < messageCount)
isMessageStar(i, mc) == i < mc

NoParticles ==
    [msg |-> 0, bg |-> 0,
     msgPositions |-> <<>>, msgStartPositions |-> <<>>,
     msgTargetPositions |-> <<>>, msgColors |-> <<>>,
     bgPositions |-> <<>>, bgStartPositions |-> <<>>,
     bgTargetPositions |-> <<>>, bgColors |-> <<>>]

\* for (let i = 0; i < TOTAL_PARTICLES; i++) { if (i < messageCount) ... else ... }
RECURSIVE setupParticles(_, _, _, _, _, _)
setupParticles(i, total, mc, draws, tone, acc) ==
    IF i >= total THEN acc
    ELSE IF isMessageStar(i, mc)
         THEN setupParticles(i + 1, total, mc, draws, tone,
                  [acc EXCEPT
                     !.msg = @ + 1,
                     !.msgStartPositions = @ \o draws[i].start,
                     !.msgPositions = @ \o initialPosition(draws[i]),
                     !.msgTargetPositions = @ \o draws[i].target,
                     !.msgColors = @ \o getColorForTone(tone)])
         ELSE setupParticles(i + 1, total, mc, draws, tone,
                  [acc EXCEPT
                     !.bg = @ + 1,
                     !.bgStartPositions = @ \o draws[i].start,
                     !.bgPositions = @ \o initialPosition(draws[i]),
                     !.bgTargetPositions = @ \o draws[i].cloud,
                     !.bgColors = @ \o setHSL(draws[i].lightness)])

\* the arrays and the two position buffers built from them
particlesBuilt(split) ==
    /\ msgCount' = split.msg
    /\ bgCount' = split.bg
    /\ msgPositions' = split.msgPositions
    /\ msgStartPositions' = split.msgStartPositions
    /\ msgTargetPositions' = split.msgTargetPositions
    /\ msgColors' = split.msgColors
    /\ msgPosAttr' = Float32BufferAttribute(split.msgPositions)
    /\ bgPositions' = split.bgPositions
    /\ bgStartPositions' = split.bgStartPositions
    /\ bgTargetPositions' = split.bgTargetPositions
    /\ bgColors' = split.bgColors
    /\ bgPosAttr' = Float32BufferAttribute(split.bgPositions)

init(outcome, draws) ==
    /\ pc = "loading"
    /\ lastOp' = "init"
    /\ UNCHANGED <<pointer, now>>
    /\ IF ~outcome.ok
       THEN \* catch: fallback list, finalPhrase stays undefined
            /\ messageCount' = FallbackCount
            /\ finalPhrase' = finalPhrase
            /\ particlesBuilt(setupParticles(0, TOTAL_PARTICLES, FallbackCount,
                                             draws, "fuerza", NoParticles))
            /\ pc' = "running"
       ELSE IF ~outcome.hasMessages
       THEN \* state.messages = undefined; state.messages.length throws outside
            \* the try block: no particles, no listeners, no animate()
            /\ finalPhrase' = outcome.finalPhrase
            /\ pc' = "crashed"
            /\ UNCHANGED <<messageCount, msgCount, bgCount, arrays, buffers>>
       ELSE /\ messageCount' = outcome.length
            /\ finalPhrase' = outcome.finalPhrase
            /\ particlesBuilt(setupParticles(0, TOTAL_PARTICLES, outcome.length,
                                             draws, "", NoParticles))
            /\ pc' = "running"
    /\ UNCHANGED <<isMobile, session, display>>

\* ------------------------------------------------------------- raycasting
Distances == {0, 1}
NoHit == [index |-> -1, distanceToRay |-> -1]
Hits == [index : 0..(msgCount - 1), distanceToRay : Distances]

\* raycaster.intersectObject(msgParticles) when the ray passes within the
\* threshold of at most one particle.
SingleRaycastResults ==
    {<<>>} \cup {<<h>> : h \in [index : 0..(msgCount - 1), distanceToRay : {0}]}

\* raycaster.intersectObject(msgParticles): nothing, one particle, or two
\* neighbouring particles, in three.js' order (distance from the camera).
RaycastResults ==
    SingleRaycastResults
    \cup UNION {{<<h1, h2>> : h2 \in {h \in Hits :
                                  /\ h.index = (h1.index + 1) % msgCount
                                  /\ h.index # h1.index}} : h1 \in Hits}

\* The particles of both populations within the threshold of a ray, in the
\* order of their distance from the camera: none, one, or two distinct ones.
SceneHits ==
    [population : {"msg"}, index : 0..(msgCount - 1), distanceToRay : Distances]
    \cup [population : {"bg"}, index : 0..(bgCount - 1), distanceToRay : Distances]

sameParticle(h1, h2) == h1.population = h2.population /\ h1.index = h2.index

Scenes ==
    {<<>>}
    \cup {<<h>> : h \in SceneHits}
    \cup UNION {{<<h1, h2>> : h2 \in {h \in SceneHits : ~sameParticle(h, h1)}} :
                   h1 \in SceneHits}

Pointers == [onCanvas : BOOLEAN, scene : Scenes]

\* slip: the raycast of the first revision, against one object holding every
\* particle
intersectObject_AllParticles(object, scene) == scene

\* raycaster.intersectObject(msgParticles): only the particles of the object
intersectObject(object, scene) ==
    SelectSeq(scene, LAMBDA h : h.population = object)

\* Array.prototype.sort((a, b) => a.distanceToRay - b.distanceToRay), stable
RECURSIVE insertByDistance(_, _)
insertByDistance(h, s) ==
    IF s = <<>> THEN <<h>>
    ELSE IF h.distanceToRay < Head(s).distanceToRay
         THEN <<h>> \o s
         ELSE <<Head(s)>> \o insertByDistance(h, Tail(s))

RECURSIVE sortByDistanceToRay(_)
sortByDistanceToRay(s) ==
    IF s = <<>> THEN <<>>
    ELSE insertByDistance(s[Len(s)], sortByDistanceToRay(SubSeq(s, 1, Len(s) - 1)))

\* slip: the first revision's "just take first hit", no sort
checkIntersection_FirstHit(intersects) ==
    IF ~isFormed \/ pc # "running" THEN NoHit
    ELSE IF Len(intersects) > 0
         THEN Head(intersects)
         ELSE NoHit

checkIntersection(intersects) ==
    IF ~isFormed \/ pc # "running" THEN NoHit
    ELSE IF Len(intersects) > 0
         THEN Head(sortByDistanceToRay(intersects))
         ELSE NoHit

\* ------------------------------------------------------------ showMessage
\* slip: every open counts as a first open
notYetOpened_Always(index) == TRUE

\* !state.openedIndices.has(index)
notYetOpened(index) == index \notin openedIndices

\* slip: the threshold is tested before the increment is taken into account
completionReached_OffByOne(count) ==
    count = CompletionThreshold - 1 /\ finalPhrase # NoPhrase

\* slip: >= instead of ===
completionReached_AtLeast(count) ==
    count >= CompletionThreshold /\ finalPhrase # NoPhrase

\* state.openedCount === 10 && state.finalPhrase
completionReached(count) == count = CompletionThreshold /\ finalPhrase # NoPhrase

\* state.messages[index] is undefined for an index outside the list: reading
\* msg.name then throws, after state.currentMsgIndex was assigned.
indexInList(index) == index \in 0..(messageCount - 1)

\* slip: the viewed set is kept one-based
showMessage_OneBased(index) ==
    /\ currentMsgIndex' = index
    /\ IF ~indexInList(index)
       THEN UNCHANGED <<msgOverlay, highlightVisible, hoverVisible,
                        openedIndices, openedCount, footerNotif, sizeBoosts>>
       ELSE /\ msgOverlay' = "visible"
            /\ highlightVisible' = TRUE
            /\ hoverVisible' = FALSE
            /\ IF notYetOpened(index + 1)
               THEN /\ openedIndices' = openedIndices \cup {index + 1}
                    /\ openedCount' = openedCount + 1
                    /\ IF completionReached(openedCount + 1)
                       THEN /\ footerNotif' = "visible"
                            /\ sizeBoosts' = sizeBoosts + 1
                       ELSE UNCHANGED <<footerNotif, sizeBoosts>>
               ELSE UNCHANGED <<openedIndices, openedCount, footerNotif,
                                sizeBoosts>>

showMessage(index) ==
    /\ currentMsgIndex' = index
    /\ IF ~indexInList(index)
       THEN UNCHANGED <<msgOverlay, highlightVisible, hoverVisible,
                        openedIndices, openedCount, footerNotif, sizeBoosts>>
       ELSE /\ msgOverlay' = "visible"
            /\ highlightVisible' = TRUE
            /\ hoverVisible' = FALSE
            /\ IF notYetOpened(index)
               THEN /\ openedIndices' = openedIndices \cup {index}
                    /\ openedCount' = openedCount + 1
                    /\ IF completionReached(openedCount + 1)
                       THEN /\ footerNotif' = "visible"
                            /\ sizeBoosts' = sizeBoosts + 1
                       ELSE UNCHANGED <<footerNotif, sizeBoosts>>
               ELSE UNCHANGED <<openedIndices, openedCount, footerNotif,
                                sizeBoosts>>

\* --------------------------------------------------------------- handlers
\* slip: the button toggles the formation
openSky_Toggle ==
    /\ pc = "running"
    /\ lastOp' = "openSky"
    /\ UNCHANGED <<pointer, arrays, buffers, now>>
    /\ isFormed' = ~isFormed
    /\ UNCHANGED <<pool, openedCount, openedIndices, currentMsgIndex,
                   footerNotif, sizeBoosts, display>>

openSky ==
    /\ pc = "running"
    /\ lastOp' = "openSky"
    /\ UNCHANGED <<pointer, arrays, buffers, now>>
    /\ isFormed' = TRUE
    /\ UNCHANGED <<pool, openedCount, openedIndices, currentMsgIndex,
                   footerNotif, sizeBoosts, display>>

\* slip: closing the overlay also forgets what was read
closeMessage_ClearsViewed ==
    /\ pc = "running"
    /\ lastOp' = "close"
    /\ UNCHANGED <<pointer, arrays, buffers, now>>
    /\ msgOverlay' = "hidden"
    /\ highlightVisible' = FALSE
    /\ currentMsgIndex' = NoMessage
    /\ openedIndices' = {}
    /\ openedCount' = 0
    /\ UNCHANGED <<pool, isFormed, footerNotif, sizeBoosts, hoverVisible,
                   cursor>>

\* slip: the close handler of src/main.js, which has no open index to reset
closeMessage_KeepsIndex ==
    /\ pc = "running"
    /\ lastOp' = "close"
    /\ UNCHANGED <<pointer, arrays, buffers, now>>
    /\ msgOverlay' = "hidden"
    /\ highlightVisible' = FALSE
    /\ UNCHANGED <<pool, isFormed, openedCount, openedIndices, currentMsgIndex,
                   footerNotif, sizeBoosts, hoverVisible, cursor>>

closeMessage ==
    /\ pc = "running"
    /\ lastOp' = "close"
    /\ UNCHANGED <<pointer, arrays, buffers, now>>
    /\ msgOverlay' = "hidden"
    /\ highlightVisible' = FALSE
    /\ currentMsgIndex' = NoMessage
    /\ UNCHANGED <<pool, isFormed, openedCount, openedIndices, footerNotif,
                   sizeBoosts, hoverVisible, cursor>>

\* slip: navigation is only refused when there is nothing to navigate
navigationBlocked_OnlyWhenEmpty == currentMsgIndex = NoMessage /\ messageCount = 0

\* if(state.currentMsgIndex === -1) return;
navigationBlocked == currentMsgIndex = NoMessage

\* (state.currentMsgIndex + 1) % state.messages.length
nextIndex(i) == (i + 1) % messageCount

\* let prevIndex = i - 1; if (prevIndex < 0) prevIndex = state.messages.length - 1;
prevIndex(i) == IF i - 1 < 0 THEN messageCount - 1 ELSE i - 1

\* slip: navigation shows the message without recording it as viewed
navigateToMessage_ViewOnly(index) ==
    /\ currentMsgIndex' = index
    /\ msgOverlay' = "visible"
    /\ highlightVisible' = TRUE
    /\ hoverVisible' = FALSE
    /\ UNCHANGED <<openedIndices, openedCount, footerNotif, sizeBoosts>>

navigateToMessage(index) == showMessage(index)

onNext ==
    /\ pc = "running"
    /\ lastOp' = "next"
    /\ UNCHANGED <<pointer, arrays, buffers, now>>
    /\ IF navigationBlocked
       THEN UNCHANGED <<session, display>>
       ELSE /\ navigateToMessage(nextIndex(currentMsgIndex))
            /\ UNCHANGED <<isFormed, cursor>>
    /\ UNCHANGED pool

onPrev ==
    /\ pc = "running"
    /\ lastOp' = "prev"
    /\ UNCHANGED <<pointer, arrays, buffers, now>>
    /\ IF navigationBlocked
       THEN UNCHANGED <<session, display>>
       ELSE /\ navigateToMessage(prevIndex(currentMsgIndex))
            /\ UNCHANGED <<isFormed, cursor>>
    /\ UNCHANGED pool

\* if (!state.isFormed) return;
clickIgnored == ~isFormed

\* slip: the click handler of the first revision (its own raycast) without
\* the isFormed guard
onClick_Unguarded(onCanvas, intersects) ==
    /\ pc = "running"
    /\ lastOp' = "click"
    /\ UNCHANGED <<pointer, arrays, buffers, now>>
    /\ IF ~onCanvas
       THEN UNCHANGED <<session, display>>
       ELSE IF Len(intersects) > 0 /\ Head(intersects).index < messageCount
            THEN /\ showMessage(Head(intersects).index)
                 /\ UNCHANGED <<isFormed, cursor>>
            ELSE UNCHANGED <<session, display>>
    /\ UNCHANGED pool

\* slip: a click on empty sky closes the open message
onClick_MissCloses(onCanvas, intersects) ==
    /\ pc = "running"
    /\ lastOp' = "click"
    /\ UNCHANGED <<pointer, arrays, buffers, now>>
    /\ IF clickIgnored \/ ~onCanvas
       THEN UNCHANGED <<session, display>>
       ELSE LET hit == checkIntersection(intersects)
            IN IF hit # NoHit /\ hit.index < messageCount
               THEN /\ showMessage(hit.index)
                    /\ UNCHANGED <<isFormed, cursor>>
               ELSE /\ currentMsgIndex' = NoMessage
                    /\ msgOverlay' = "hidden"
                    /\ highlightVisible' = FALSE
                    /\ UNCHANGED <<isFormed, openedCount, openedIndices,
                                   footerNotif, sizeBoosts, hoverVisible,
                                   cursor>>
    /\ UNCHANGED pool

onClick(onCanvas, intersects) ==
    /\ pc = "running"
    /\ lastOp' = "click"
    /\ UNCHANGED <<pointer, arrays, buffers, now>>
    /\ IF clickIgnored \/ ~onCanvas
       THEN UNCHANGED <<session, display>>
       ELSE LET hit == checkIntersection(intersects)
            IN IF hit # NoHit /\ hit.index < messageCount
               THEN /\ showMessage(hit.index)
                    /\ UNCHANGED <<isFormed, cursor>>
               ELSE UNCHANGED <<session, display>>
    /\ UNCHANGED pool

\* pointer.x / pointer.y follow the mouse; the model keeps what the new
\* position points at
onPointerMove(p) ==
    /\ pc = "running"
    /\ lastOp' = "pointermove"
    /\ pointer' = p
    /\ UNCHANGED <<arrays, buffers, now>>
    /\ UNCHANGED <<pool, session, display>>

onWindowResize ==
    /\ pc = "running"
    /\ lastOp' = "resize"
    /\ UNCHANGED <<pointer, arrays, buffers, now>>
    /\ UNCHANGED <<pool, session, display>>

\* A caller of navigateToMessage (and through it showMessage) with an index
\* of its own choosing.
RequestIndices == (0 - 2)..(MaxMessagesSmall + 1)

openRequest(index) ==
    /\ pc = "running"
    /\ lastOp' = "open"
    /\ UNCHANGED <<pointer, arrays, buffers, now>>
    /\ navigateToMessage(index)
    /\ UNCHANGED <<isFormed, cursor>>
    /\ UNCHANGED pool

\* -------------------------------------------------------------- animate
\* Math.sin / Math.cos at sixteen points of the circle, in hundredths
sinTable ==
    <<0, 38, 71, 92, 100, 92, 71, 38, 0, -38, -71, -92, -100, -92, -71, -38>>
sin100(steps) == sinTable[(steps % 16) + 1]
cos100(steps) == sin100(steps + 4)

\* an angle in thousandths of a radian, in steps of the table
phase(milliRadians) == (milliRadians * 16) \div 6283

\* time * rate for rate = 0.2, 0.15, 0.1 (in hundredths), in steps of the
\* table: one clock sample turns the slowest wave by two steps
turn(time, rate) == (time * rate) \div 5

\* the clock samples after which every wave repeats
ClockPeriod == 16
\* a clock sample at which the waves of the first particles are at rest
SampleTime == 4

\* const floatScale = 0.25; the drift amplitude 1.5; in lattice units
floatScale == 25
driftScale == 150

\* slip: the two factors of the ternary are swapped
kMsg_Swapped == IF isFormed THEN 50 ELSE 6

\* const k = state.isFormed ? 0.006 : 0.05;  const k = 0.01;  in thousandths
kMsg == IF isFormed THEN 6 ELSE 50
kBg == 10

\* slip: the formed branch keeps heading for the start position
msgTarget_NeverFormed(c, time) ==
    LET i == (c - 1) \div 3
        axis == (c - 1) % 3
        tOffset == phase(i * 100)
        wave == IF axis = 0 THEN sin100(turn(time, 20) + tOffset)
                ELSE IF axis = 1 THEN cos100(turn(time, 15) + tOffset)
                ELSE sin100(turn(time, 10) + tOffset)
    IN msgStartPositions[c] * 100 + wave * floatScale

\* tx, ty, tz of component c (1-based) of the interactive array, in
\* hundredths of a lattice unit
msgTarget(c, time) ==
    LET i == (c - 1) \div 3
        axis == (c - 1) % 3
        tOffset == phase(i * 100)
        wave == IF axis = 0 THEN sin100(turn(time, 20) + tOffset)
                ELSE IF axis = 1 THEN cos100(turn(time, 15) + tOffset)
                ELSE sin100(turn(time, 10) + tOffset)
    IN IF isFormed
       THEN msgTargetPositions[c] * 100
       ELSE msgStartPositions[c] * 100 + wave * floatScale

\* tx + driftX, ty + driftY, tz of component c of the decorative array
bgTarget(c, time) ==
    LET i == (c - 1) \div 3
        axis == (c - 1) % 3
        t == IF isFormed THEN bgTargetPositions[c] ELSE bgStartPositions[c]
        drift == IF axis = 0 THEN sin100(turn(time, 10) + phase(i * 1000))
                 ELSE IF axis = 1 THEN cos100(turn(time, 15) + phase(i * 1000))
                 ELSE 0
    IN t * 100 + drift * driftScale

\* array[ix] += (t - array[ix]) * k, stored back into the Float32Array
approach(current, target, k) ==
    fround(current * 100000 + (target - current * 100) * k, 100000)

\* slip: a frame also drags the start positions along
animate_MovesStart(intersects, farFromSelected, time) ==
    /\ pc = "running"
    /\ lastOp' = "animate"
    /\ now' = time
    /\ IF isFormed
       THEN LET hit == checkIntersection(intersects)
            IN IF hit # NoHit
               THEN /\ cursor' = "pointer"
                    /\ hoverVisible' = (~highlightVisible \/ farFromSelected)
               ELSE /\ cursor' = "default"
                    /\ hoverVisible' = FALSE
       ELSE UNCHANGED <<cursor, hoverVisible>>
    /\ msgPosAttr' = [c \in 1..Len(msgPosAttr) |->
                         approach(msgPosAttr[c], msgTarget(c, time), kMsg)]
    /\ bgPosAttr' = [c \in 1..Len(bgPosAttr) |->
                        approach(bgPosAttr[c], bgTarget(c, time), kBg)]
    /\ msgStartPositions' = [c \in 1..Len(msgPosAttr) |->
                        approach(msgPosAttr[c], msgTarget(c, time), kMsg)]
    /\ UNCHANGED <<pointer, msgPositions, msgTargetPositions, msgColors,
                   bgPositions, bgStartPositions, bgTargetPositions,
                   bgColors>>
    /\ UNCHANGED <<pool, session, msgOverlay, highlightVisible>>

\* One frame: the hover check, then the two position buffers advance.
\* farFromSelected is
\* highlightSphere.position.distanceTo(hoverStar.position) > 0.1; time is
\* Date.now() * 0.001.  The rotation of the two point clouds and the pulse
\* of the hover star are transforms of the rendering only.
animate(intersects, farFromSelected, time) ==
    /\ pc = "running"
    /\ lastOp' = "animate"
    /\ now' = time
    /\ IF isFormed
       THEN LET hit == checkIntersection(intersects)
            IN IF hit # NoHit
               THEN /\ cursor' = "pointer"
                    /\ hoverVisible' = (~highlightVisible \/ farFromSelected)
               ELSE /\ cursor' = "default"
                    /\ hoverVisible' = FALSE
       ELSE UNCHANGED <<cursor, hoverVisible>>
    /\ msgPosAttr' = [c \in 1..Len(msgPosAttr) |->
                         approach(msgPosAttr[c], msgTarget(c, time), kMsg)]
    /\ bgPosAttr' = [c \in 1..Len(bgPosAttr) |->
                        approach(bgPosAttr[c], bgTarget(c, time), kBg)]
    /\ UNCHANGED <<pointer, arrays>>
    /\ UNCHANGED <<pool, session, msgOverlay, highlightVisible>>

\* ---------------------------------------------------------- specification
Init ==
    /\ pc = "loading"
    /\ isMobile \in BOOLEAN
    /\ messageCount = 0
    /\ finalPhrase = NoPhrase
    /\ msgCount = 0
    /\ bgCount = 0
    /\ isFormed = FALSE
    /\ openedCount = 0
    /\ openedIndices = {}
    /\ currentMsgIndex = NoMessage
    /\ msgOverlay = "hidden"
    /\ highlightVisible = FALSE
    /\ hoverVisible = FALSE
    /\ cursor = "default"
    /\ footerNotif = "hidden"
    /\ sizeBoosts = 0
    /\ pointer = [onCanvas |-> TRUE, scene |-> <<>>]
    /\ msgPositions = <<>>
    /\ msgStartPositions = <<>>
    /\ msgTargetPositions = <<>>
    /\ msgColors = <<>>
    /\ msgPosAttr = <<>>
    /\ bgPositions = <<>>
    /\ bgStartPositions = <<>>
    /\ bgTargetPositions = <<>>
    /\ bgColors = <<>>
    /\ bgPosAttr = <<>>
    /\ now = 0
    /\ lastOp = "none"

Next ==
    \/ \E outcome \in FetchOutcomes(MaxMessages),
          draws \in SettledDraws(TOTAL_PARTICLES) : init(outcome, draws)
    \/ openSky
    \/ closeMessage
    \/ onNext
    \/ onPrev
    \/ onClick(FALSE, <<>>)
    \/ \E intersects \in RaycastResults : onClick(TRUE, intersects)
    \/ onWindowResize
    \/ \E intersects \in RaycastResults, farFromSelected \in BOOLEAN :
           animate(intersects, farFromSelected, SampleTime)

Spec == Init /\ [][Next]_vars

\* The message handlers alone, on documents long enough for the completion
\* threshold to be reached.
NextCompletion ==
    \/ \E outcome \in FetchOutcomes(MaxMessagesLong),
          draws \in SettledDraws(TOTAL_PARTICLES) : init(outcome, draws)
    \/ openSky
    \/ closeMessage
    \/ onNext
    \/ onPrev
    \/ onClick(FALSE, <<>>)
    \/ \E intersects \in SingleRaycastResults : onClick(TRUE, intersects)

SpecCompletion == Init /\ [][NextCompletion]_vars

\* Clicks resolved from what the pointer points at, narrow viewport.
InitHit == Init /\ isMobile

NextHit ==
    \/ \E outcome \in FetchOutcomes(MaxMessagesSmall),
          draws \in SettledDraws(TOTAL_PARTICLES) : init(outcome, draws)
    \/ openSky
    \/ closeMessage
    \/ \E p \in Pointers : onPointerMove(p)
    \/ onClick(pointer.onCanvas, intersectObject("msg", pointer.scene))

SpecHit == InitHit /\ [][NextHit]_vars

\* The open entry points called with any index, in range or not.
NextOpenRequest ==
    \/ \E outcome \in FetchOutcomes(MaxMessagesSmall),
          draws \in SettledDraws(TOTAL_PARTICLES) : init(outcome, draws)
    \/ openSky
    \/ closeMessage
    \/ \E index \in RequestIndices : openRequest(index)

SpecOpenRequest == Init /\ [][NextOpenRequest]_vars

\* The formation alone: frame after frame, the clock one sample further each
\* time, on pools drawn from two streams of Math.random(), narrow viewport.
NextFormation ==
    \/ \E outcome \in FetchOutcomes(MaxMessagesSmall),
          draws \in DrawStreams(TOTAL_PARTICLES) : init(outcome, draws)
    \/ openSky
    \/ animate(<<>>, FALSE, (now + 1) % ClockPeriod)

SpecFormation == InitHit /\ [][NextFormation]_vars

\* requestAnimationFrame(animate) schedules the next frame in every frame,
\* and init() is called when the module is evaluated.
SpecFormationFair ==
    /\ SpecFormation
    /\ WF_vars(animate(<<>>, FALSE, (now + 1) % ClockPeriod))
    /\ WF_vars(\E outcome \in FetchOutcomes(MaxMessagesSmall),
                  draws \in DrawStreams(TOTAL_PARTICLES) : init(outcome, draws))

\* ==================================================================== claims
opens == {"click", "next", "prev"}

\* C1 (as stated): the completion footer is surfaced exactly in the step in
\* which the 10th distinct message is opened, so it is visible exactly when
\* at least 10 distinct messages have been opened.
C1_SurfacedOnTenthDistinct ==
    pc = "running" =>
        (footerNotif = "visible" <=> Cardinality(openedIndices) >= CompletionThreshold)

\* C1 (amended): when the loaded document carries a non-empty finalPhrase the
\* footer is visible exactly when 10 distinct messages have been opened, and
\* the step that surfaces it is the open (click, Next or Previous) of the
\* 10th distinct index; without a finalPhrase it is never surfaced.
C1_SurfacedOnTenthDistinctWithPhrase ==
    /\ [](footerNotif = "visible" <=>
            (Cardinality(openedIndices) >= CompletionThreshold /\ finalPhrase # NoPhrase))
    /\ [][(footerNotif = "hidden" /\ footerNotif' = "visible") =>
            /\ lastOp' \in opens
            /\ currentMsgIndex' \notin openedIndices
            /\ Cardinality(openedIndices) = CompletionThreshold - 1
            /\ Cardinality(openedIndices') = CompletionThreshold]_vars

C1_Witness ==
    /\ footerNotif = "visible"
    /\ Cardinality(openedIndices) = CompletionThreshold
    /\ messageCount > CompletionThreshold
    /\ lastOp \in opens

\* C2: the completion footer is surfaced at most once and, once visible, is
\* never hidden again whatever is opened, closed or navigated afterwards.
C2_CompletionAtMostOnce ==
    /\ [](sizeBoosts <= 1)
    /\ [][footerNotif = "visible" =>
            (footerNotif' = "visible" /\ sizeBoosts' = sizeBoosts)]_vars

C2_Witness ==
    /\ footerNotif = "visible"
    /\ sizeBoosts = 1
    /\ Cardinality(openedIndices) > CompletionThreshold
    /\ lastOp = "close"

\* C3: an open message index always addresses an existing interactive
\* particle: 0 <= currentMsgIndex < msgCount.
C3_OpenIndexAddressesParticle ==
    currentMsgIndex # NoMessage =>
        (0 <= currentMsgIndex /\ currentMsgIndex < msgCount)

\* C4: with message i open, Next opens (i+1) mod M and Previous opens
\* (i-1) mod M, M being the size of the interactive population.
C4_NavigationWrapsOnPopulation ==
    [][/\ (lastOp' = "next" /\ currentMsgIndex # NoMessage) =>
            currentMsgIndex' = (currentMsgIndex + 1) % msgCount
       /\ (lastOp' = "prev" /\ currentMsgIndex # NoMessage) =>
            currentMsgIndex' = (currentMsgIndex - 1) % msgCount]_vars

\* C5: with no message open, Next and Previous change neither the open index,
\* the viewed set, the counter, the completion footer nor the overlay.
C5_NavigationNoOpWhenClosed ==
    [][(lastOp' \in {"next", "prev"} /\ currentMsgIndex = NoMessage) =>
            UNCHANGED <<currentMsgIndex, openedIndices, openedCount,
                        footerNotif, sizeBoosts, msgOverlay,
                        highlightVisible>>]_vars

C5_Witness ==
    /\ lastOp \in {"next", "prev"}
    /\ currentMsgIndex = NoMessage
    /\ isFormed
    /\ openedIndices # {}

\* C6: opening i adds i to the viewed set and increments the counter by one
\* when i was not viewed, changes neither when it was; the counter always
\* equals the size of the viewed set.
C6_CounterMatchesViewedSet ==
    /\ [](openedCount = Cardinality(openedIndices))
    /\ [][(lastOp' \in opens /\ currentMsgIndex' # NoMessage) =>
            IF currentMsgIndex' \notin openedIndices
            THEN /\ openedIndices' = openedIndices \cup {currentMsgIndex'}
                 /\ openedCount' = openedCount + 1
            ELSE UNCHANGED <<openedIndices, openedCount>>]_vars

C6_Witness ==
    /\ lastOp = "click"
    /\ currentMsgIndex # NoMessage
    /\ openedCount = 2
    /\ Cardinality(openedIndices) = 2

\* C7: the viewed set never shrinks, whatever handler runs.
C7_ViewedSetNeverShrinks ==
    [][openedIndices \subseteq openedIndices']_vars

C7_Witness ==
    /\ lastOp = "close"
    /\ Cardinality(openedIndices) >= 2

\* C8: every viewed index lies in [0, messageCount).
C8_ViewedWithinMessages ==
    openedIndices \subseteq 0..(messageCount - 1)

C8_Witness ==
    /\ lastOp = "next"
    /\ currentMsgIndex = messageCount - 1
    /\ (messageCount - 1) \in openedIndices
    /\ 0 \in openedIndices

\* C9: isFormed starts false, openSky sets it, nothing else changes it and
\* nothing resets it.
C9_FormedMonotonic ==
    /\ ~isFormed
    /\ [][/\ isFormed => isFormed'
          /\ lastOp' = "openSky" => isFormed'
          /\ (~isFormed /\ isFormed') => lastOp' = "openSky"]_vars

C9_Witness ==
    /\ lastOp = "openSky"
    /\ isFormed
    /\ openedIndices # {}
    /\ currentMsgIndex # NoMessage

\* C10: a message is open only once formed; before formation a click, Next
\* or Previous opens nothing and leaves the viewed set and counter alone.
C10_OpenOnlyWhenFormed ==
    /\ [](currentMsgIndex # NoMessage => isFormed)
    /\ [][(~isFormed /\ lastOp' \in opens) =>
            UNCHANGED <<isFormed, currentMsgIndex, openedIndices, openedCount,
                        msgOverlay>>]_vars

C10_Witness ==
    /\ ~isFormed
    /\ lastOp = "click"
    /\ msgCount > 0
    /\ currentMsgIndex = NoMessage

\* the interactive particles a scene holds
interactiveIn(scene) ==
    {scene[j] : j \in {n \in 1..Len(scene) : scene[n].population = "msg"}}
decorativeIn(scene) ==
    {scene[j] : j \in {n \in 1..Len(scene) : scene[n].population = "bg"}}

\* C11: decorative particles never intercept a click: when an interactive
\* particle is within the threshold a canvas click opens the message of an
\* interactive particle within the threshold, whatever decorative particles
\* are there too; with only decorative particles there it opens nothing.
C11_DecorativeNeverIntercepts ==
    [][(lastOp' = "click" /\ isFormed /\ pointer.onCanvas) =>
         IF interactiveIn(pointer.scene) # {}
         THEN /\ currentMsgIndex' \in {h.index : h \in interactiveIn(pointer.scene)}
              /\ msgOverlay' = "visible"
         ELSE UNCHANGED <<currentMsgIndex, openedIndices, openedCount,
                          msgOverlay>>]_vars

C11_Witness ==
    /\ lastOp = "click"
    /\ isFormed
    /\ pointer.onCanvas
    /\ Len(pointer.scene) = 2
    /\ pointer.scene[1].population = "bg"
    /\ pointer.scene[1].distanceToRay < pointer.scene[2].distanceToRay
    /\ pointer.scene[2].population = "msg"
    /\ currentMsgIndex = pointer.scene[2].index
    /\ pointer.scene[1].index # pointer.scene[2].index

C20_MissedClickChangesNothing ==
    [][(lastOp' = "click"
            /\ (~pointer.onCanvas \/ interactiveIn(pointer.scene) = {})) =>
         UNCHANGED <<session, msgOverlay, highlightVisible>>]_vars

C20_Witness ==
    /\ lastOp = "click"
    /\ isFormed
    /\ pointer.onCanvas
    /\ interactiveIn(pointer.scene) = {}
    /\ decorativeIn(pointer.scene) # {}
    /\ currentMsgIndex # NoMessage
    /\ msgOverlay = "visible"

\* C13: an open request with an index outside [0, messageCount) is rejected
\* or clamped: after any open request the open index is none or in range
\* and every viewed index is in range.
C13_OutOfRangeOpenRejectedOrClamped ==
    [][lastOp' = "open" =>
          /\ currentMsgIndex' = NoMessage \/ currentMsgIndex' \in 0..(messageCount - 1)
          /\ openedIndices' \subseteq 0..(messageCount - 1)]_vars

\* C14: whatever the fetch delivers, init completes and the message list it
\* hands to the particle setup is non-empty, so the interactive population
\* is never empty.
C14_LoadAlwaysYieldsMessages ==
    pc # "loading" =>
        /\ pc = "running"
        /\ messageCount >= 1
        /\ msgCount >= 1

\* C15: once the particles are set up the interactive population holds
\* min(messageCount, TOTAL_PARTICLES) particles, the decorative population
\* the rest of the budget, and neither size changes afterwards.
C15_PopulationSplit ==
    [][pc' = "running" =>
          /\ msgCount' = (IF messageCount' < TOTAL_PARTICLES'
                          THEN messageCount' ELSE TOTAL_PARTICLES')
          /\ bgCount' = TOTAL_PARTICLES' - msgCount'
          /\ msgCount' + bgCount' = TOTAL_PARTICLES'
          /\ pc = "running" => UNCHANGED <<msgCount, bgCount, messageCount>>]_vars

C15_Witness ==
    /\ pc = "running"
    /\ lastOp = "next"
    /\ msgCount = messageCount
    /\ msgCount > 1
    /\ bgCount > 0

\* C18: Close sets the open message to none and leaves isFormed, the viewed
\* set, the counter and the footer unchanged; opening an already viewed
\* message right after a Close shows it again without changing the counter.
C18_CloseFrameAndReopen ==
    [][/\ lastOp' = "close" =>
            /\ currentMsgIndex' = NoMessage
            /\ UNCHANGED <<isFormed, openedIndices, openedCount, footerNotif,
                           sizeBoosts>>
       /\ (lastOp = "close" /\ lastOp' = "click"
              /\ currentMsgIndex' \in openedIndices) =>
            /\ currentMsgIndex = NoMessage
            /\ msgOverlay' = "visible"
            /\ UNCHANGED <<openedIndices, openedCount>>]_vars

\* Close has just run on an open message with two messages viewed
C18_Witness ==
    /\ lastOp = "close"
    /\ isFormed
    /\ currentMsgIndex = NoMessage
    /\ msgOverlay = "hidden"
    /\ openedCount = 2
    /\ Cardinality(openedIndices) = 2

\* |a - b|
distance(a, b) == IF a >= b THEN a - b ELSE b - a

\* the distance below which a step of k thousandths rounds to nothing
stallRadius(k) == (Grain * 500) \div k + 1

\* the smallest positive distance between two values of a position buffer
Epsilon == Grain

\* C16 (as stated): for every epsilon, after formation every interactive
\* particle comes and stays within epsilon of its target: a formed frame
\* that moves no interactive particle (no later frame will) finds each of
\* them within Epsilon of its target.
C16_ConvergesWithinEveryEpsilon ==
    [][(lastOp' = "animate" /\ isFormed /\ msgPosAttr' = msgPosAttr) =>
          \A c \in 1..Len(msgPosAttr) :
              distance(msgPosAttr'[c], msgTargetPositions[c]) <= Epsilon]_vars

withinReach ==
    IF isFormed
    THEN /\ \A c \in 1..Len(msgPosAttr) :
               distance(msgPosAttr[c], msgTargetPositions[c]) <= stallRadius(6)
         /\ \A c \in 1..Len(bgPosAttr) :
               distance(bgPosAttr[c], bgTargetPositions[c])
                   <= (IF (c - 1) % 3 < 2 THEN driftScale ELSE 0)
                      + stallRadius(10)
    ELSE /\ \A c \in 1..Len(msgPosAttr) :
               distance(msgPosAttr[c], msgStartPositions[c])
                   <= floatScale + stallRadius(50)
         /\ \A c \in 1..Len(bgPosAttr) :
               distance(bgPosAttr[c], bgStartPositions[c])
                   <= (IF (c - 1) % 3 < 2 THEN driftScale ELSE 0)
                      + stallRadius(10)

\* C16 (amended): under fair frames every particle eventually comes and
\* stays within reach of its target: a formed interactive particle within
\* the distance at which a step of 0.006 of the distance rounds to nothing in
\* the Float32 buffer, a decorative particle within the drift amplitude plus
\* the like distance for 0.01, and before formation the same around the
\* start position with the amplitude 0.25 and the factor 0.05.
C16_SettlesWithinReach == <>[]withinReach

\* formed interactive particles have moved, are within reach and at rest
\* farther than Epsilon from their targets
C16_Witness ==
    /\ lastOp = "animate"
    /\ isFormed
    /\ msgCount >= 1
    /\ withinReach
    /\ \E c \in 1..Len(msgPosAttr) :
           /\ msgPosAttr[c] # fround(msgStartPositions[c], 1)
           /\ distance(msgPosAttr[c], msgTargetPositions[c]) > Epsilon
           /\ distance(msgPosAttr[c], msgTargetPositions[c]) < stallRadius(6)

C19_FrameTouchesOnlyPositions ==
    [][lastOp' = "animate" =>
          UNCHANGED <<msgPositions, msgStartPositions, msgTargetPositions,
                      msgColors, bgPositions, bgStartPositions,
                      bgTargetPositions, bgColors, msgCount, bgCount,
                      messageCount, finalPhrase, isFormed, currentMsgIndex,
                      openedIndices, openedCount, footerNotif, sizeBoosts,
                      msgOverlay, highlightVisible>>]_vars

\* a frame has moved the interactive particles and marked a hovered star
\* while a message is open
C19_Witness ==
    /\ lastOp = "animate"
    /\ isFormed
    /\ currentMsgIndex # NoMessage
    /\ cursor = "pointer"
    /\ hoverVisible
    /\ \E c \in 1..Len(msgPosAttr) :
           msgPosAttr[c] # fround(msgStartPositions[c], 1)

\* a frame leaves component c between where it was and its target
noOvershoot(before, after, target) ==
    \/ before * 100 <= after * 100 /\ after * 100 <= target
    \/ target <= after * 100 /\ after * 100 <= before * 100

framesNeverOvershoot ==
    lastOp' = "animate" =>
        /\ 0 < kMsg /\ kMsg < 1000
        /\ 0 < kBg /\ kBg < 1000
        /\ \A c \in 1..Len(msgPosAttr) :
               noOvershoot(msgPosAttr[c], msgPosAttr'[c], msgTarget(c, now'))
        /\ \A c \in 1..Len(bgPosAttr) :
               noOvershoot(bgPosAttr[c], bgPosAttr'[c], bgTarget(c, now'))

\* C21 (as stated): for each population the factor k of a formed frame is
\* strictly smaller than the factor of an idle frame, and 0 < k < 1 always,
\* so no frame carries a particle past its target.
C21_FormedFactorSmaller ==
    [][/\ (lastOp' = "openSky" /\ ~isFormed) =>
            (kMsg' < kMsg /\ kBg' < kBg)
       /\ framesNeverOvershoot]_vars

\* C21 (amended): the factor of the interactive population is strictly
\* smaller once formed than idle, the factor of the decorative population
\* is the same in both states, and 0 < k < 1 always, so no frame carries a
\* particle past its target.
C21_FormedFactorSmallerForMessages ==
    [][/\ (lastOp' = "openSky" /\ ~isFormed) =>
            (kMsg' < kMsg /\ kBg' = kBg)
       /\ framesNeverOvershoot]_vars

\* formed frames have moved particles of both populations
C21_Witness ==
    /\ lastOp = "animate"
    /\ isFormed
    /\ \E c \in 1..Len(msgPosAttr) :
           /\ msgPosAttr[c] # fround(msgStartPositions[c], 1)
           /\ msgPosAttr[c] # msgTargetPositions[c]
    /\ \E c \in 1..Len(bgPosAttr) :
           bgPosAttr[c] # fround(bgStartPositions[c], 1)

navigations == {"next", "prev"}

\* what a navigation to an already viewed message leaves alone
navigationKeepsRecord ==
    (lastOp' \in navigations /\ currentMsgIndex # NoMessage
       /\ currentMsgIndex' \in openedIndices) =>
        UNCHANGED <<openedIndices, openedCount, footerNotif, sizeBoosts,
                    isFormed, msgOverlay>>

\* C22 (as stated): Next and Previous count as opens: reaching a message not
\* yet viewed adds it to the viewed set, increments the counter and, if it is
\* the 10th distinct message, surfaces the footer; reaching a viewed one
\* changes only the open index.
C22_NavigationCountsAsOpen ==
    [][/\ (lastOp' \in navigations /\ currentMsgIndex # NoMessage
             /\ currentMsgIndex' \notin openedIndices) =>
            /\ openedIndices' = openedIndices \cup {currentMsgIndex'}
            /\ openedCount' = openedCount + 1
            /\ Cardinality(openedIndices') = CompletionThreshold =>
                   (footerNotif = "hidden" /\ footerNotif' = "visible")
       /\ navigationKeepsRecord]_vars

\* C22 (amended): as stated, the footer being surfaced by the 10th distinct
\* message only when the document carries a non-empty finalPhrase, and left
\* as it is otherwise.
C22_NavigationCountsAsOpenWithPhrase ==
    [][/\ (lastOp' \in navigations /\ currentMsgIndex # NoMessage
             /\ currentMsgIndex' \notin openedIndices) =>
            /\ openedIndices' = openedIndices \cup {currentMsgIndex'}
            /\ openedCount' = openedCount + 1
            /\ IF Cardinality(openedIndices') = CompletionThreshold
                  /\ finalPhrase # NoPhrase
               THEN footerNotif = "hidden" /\ footerNotif' = "visible"
               ELSE footerNotif' = footerNotif
       /\ navigationKeepsRecord]_vars

\* Next has just opened the last message of an eleven-message document as
\* the 10th distinct one (message 10 has no particle) and the footer shows
C22_Witness ==
    /\ lastOp = "next"
    /\ footerNotif = "visible"
    /\ messageCount = CompletionThreshold + 1
    /\ currentMsgIndex = CompletionThreshold
    /\ openedCount = CompletionThreshold
    /\ Cardinality(openedIndices) = CompletionThreshold

====
